---- MODULE Spec2Model ----
(***************************************************************************)
(* Model of rufus.crawler.Crawler: a ThreadPoolExecutor whose tasks are    *)
(* calls of Crawler._crawl_recursive, and the main thread running          *)
(* Crawler.crawl.  One worker step is one access to state shared between   *)
(* threads (the work queue, visited_urls, pages, the pool's shutdown flag) *)
(* or one blocking call (requests.get, time.sleep).  The threads of the    *)
(* pool are interchangeable, so the pool is the bag of the states of the   *)
(* threads that are inside a task plus the number of threads that exited.  *)
(***************************************************************************)
EXTENDS Integers, Sequences, FiniteSets, Bags, TLC

\* ------------------------------------------------------------------ bounds
MaxWorkers == 2        \* worker threads of the pool (max_workers)
MaxDepthArg == 2       \* largest max_depth a caller passes to crawl
MaxRetriesArg == 2     \* largest max_retries a Crawler is constructed with
MaxCalls == 2          \* calls of crawl on one Crawler

\* -------------------------------------------------------------------- URLs
\* A URL is scheme://host/dir/file; the scheme is the same everywhere.
\* host stands for urlparse(url).netloc, the host[:port] string.
Url(h, d, f) == [host |-> h, dir |-> d, file |-> f]

A == Url("h1", "", "a")      \* the seed
B == Url("h1", "d", "b")     \* same host, in another directory
C == Url("h2", "", "c")      \* another host
D == Url("h1", "", "d")
E == Url("h1", "", "e")
DE == Url("h1", "d", "e")    \* what "e" means relative to B
NoUrl == Url("", "", "")

Urls == {A, B, C, D, E, DE}

\* An href attribute: an absolute URL or a file name relative to a page.
Abs(u) == [kind |-> "abs", url |-> u, file |-> ""]
Rel(f) == [kind |-> "rel", url |-> NoUrl, file |-> f]

\* urllib.parse.urljoin(base, href)
urljoin(base, href) ==
    IF href.kind = "abs" THEN href.url
    ELSE Url(base.host, base.dir, href.file)

\* The hrefs of the <a href> tags of each page, in document order.
SiteAB ==
    (A :> <<Abs(B), Abs(C)>>) @@ (B :> <<Rel("e"), Abs(A)>>)
    @@ (C :> <<Abs(A)>>) @@ (D :> <<>>) @@ (E :> <<Abs(E)>>) @@ (DE :> <<>>)

SiteGraph ==
    (A :> <<Abs(B), Abs(D)>>) @@ (B :> <<Abs(D), Abs(E)>>)
    @@ (C :> <<>>) @@ (D :> <<>>) @@ (E :> <<>>) @@ (DE :> <<>>)

Sites == {SiteAB, SiteGraph}

\* ---------------------------------------------------------------- responses
Timeout == 0                       \* requests.get raised (timeout, connection)
Responses == {200, 403, 404, 500, Timeout}

\* response.raise_for_status() raises HTTPError
RaisesForStatus(status) == status >= 400 /\ status < 600

\* response.status_code == 404
IsNotFound(r) == r = 404

\* The try block without the 404 test: a 404 reaches raise_for_status.
Outcome_No404Test(r) ==
    IF r = Timeout THEN "retry"
    ELSE IF RaisesForStatus(r) THEN "retry"
    ELSE "ok"

\* The try block without raise_for_status: a 403 or 500 body is kept.
Outcome_NoRaise(r) ==
    IF r = Timeout THEN "retry"
    ELSE IF IsNotFound(r) THEN "notfound"
    ELSE "ok"

\* What one pass through the try block makes of a response, in the order
\* of the code: requests.get raising, the 404 test, raise_for_status.
Outcome(r) ==
    IF r = Timeout THEN "retry"
    ELSE IF IsNotFound(r) THEN "notfound"
    ELSE IF RaisesForStatus(r) THEN "retry"
    ELSE "ok"

VARIABLES
    site,          \* the web site being crawled (environment)
    max_retries,   \* Crawler.max_retries
    visited_urls,  \* Crawler.visited_urls
    shutdown,      \* executor._shutdown
    queue,         \* executor._work_queue
    running,       \* bag of the threads inside _crawl_recursive
    exited,        \* number of pool threads that have exited
    mainpc,        \* where the caller of crawl is
    max_depth,     \* argument of the current crawl call
    pages,         \* the dict local to the current crawl call
    seedDone,      \* the seed task's future is done
    result,        \* what the last crawl call returned
    calls,         \* crawl calls made so far
    fetchers,      \* history: tasks that issued a first GET, per URL
    resp,          \* history: the URLs that gave a response of each kind
    finished,      \* history: how each finished task ended
    log,           \* the WARNING and ERROR records written by the crawler
    spc,           \* RufusClient.scrape: where the call is
    keywords,      \* scrape: what parse_instructions returned
    items,         \* scrape: the URLs of pages.items(), in order
    pos,           \* scrape: index of the page being processed
    chunks,        \* is_relevant: the chunks of the page's text
    ci,            \* is_relevant: index of the chunk being assessed
    relevance,     \* is_relevant: its local of that name
    documents,     \* scrape: the list of documents
    verdicts,      \* history: what is_relevant returned, per page
    answers,       \* history: how each classifier call came out
    output         \* scrape: "returned", "file" or "none" (not finished)

vars == <<site, max_retries, visited_urls, shutdown, queue, running, exited,
          mainpc,
          max_depth, pages, seedDone, result, calls, fetchers, resp,
          finished, log, spc, keywords, items, pos, chunks, ci, relevance,
          documents, verdicts, answers, output>>

hist == <<fetchers, resp, finished, log>>
svars == <<spc, keywords, items, pos, chunks, ci, relevance, documents,
           verdicts, answers, output>>
cvars == <<site, max_retries, visited_urls, shutdown, queue, running, exited,
           mainpc, max_depth, pages, seedDone, result, calls, hist>>

\* ------------------------------------------------------------------ helpers
Task(u, d) == [url |-> u, depth |-> d]
Sentinel == Task(NoUrl, -1)        \* the None the pool puts in its queue

\* a thread that has taken a work item off the queue
Thread(task) ==
    [pc |-> "check", url |-> task.url, depth |-> task.depth, attempt |-> 0,
     idx |-> 0]

Threads == BagToSet(running)

\* threads blocked in work_queue.get()
NumIdle == MaxWorkers - BagCardinality(running) - exited

\* the thread in state t moves to state t2 / leaves its task
Move(t, t2) == running' = (running (-) SetToBag({t})) (+) SetToBag({t2})
Leave(t) == running' = running (-) SetToBag({t})

\* ------------------------------------------------------------ page content
\* A text is the sequence of its words, a word being given by its length;
\* the text of a tag is already stripped.
NoTitle == [present |-> FALSE, string |-> ""]
Title(s) == [present |-> TRUE, string |-> s]

\* The <title>, the <h1>..<h3> and the <p> tags of each page.
PageTitle ==
    (A :> Title(" Home ")) @@ (B :> NoTitle) @@ (C :> NoTitle)
    @@ (D :> Title("Docs")) @@ (E :> NoTitle) @@ (DE :> NoTitle)
PageHeadings ==
    (A :> << <<3000>>, <<5>> >>) @@ (B :> << <<5, 5>> >>) @@ (C :> <<>>)
    @@ (D :> <<>>) @@ (E :> <<>>) @@ (DE :> <<>>)
PageParagraphs ==
    (A :> << <<7>> >>) @@ (B :> <<>>) @@ (C :> <<>>)
    @@ (D :> << <<3000>>, <<4>> >>) @@ (E :> <<>>) @@ (DE :> <<>>)

\* response.text
Html(u) ==
    [title |-> PageTitle[u], headings |-> PageHeadings[u],
     p |-> PageParagraphs[u], links |-> site[u]]

\* str.strip()
Strip(str) == IF str = " Home " THEN "Home" ELSE str

\* dict.get(key, default)
DictGet(dict, key, default) ==
    IF key \in DOMAIN dict THEN dict[key] ELSE default

\* Crawler.extract_content(html)
extract_content(html) ==
    [title |-> IF html.title.present THEN Strip(html.title.string) ELSE "",
     headings |-> html.headings,
     paragraph |-> html.p,
     links |-> html.links]

\* The document built from the plural key.
generate_doc_Plural(url, content) ==
    [url |-> url,
     title |-> DictGet(content, "title", ""),
     content |-> DictGet(content, "paragraphs", <<>>)]

\* Crawler.generate_doc(url, content)
generate_doc(url, content) ==
    [url |-> url,
     title |-> DictGet(content, "title", ""),
     content |-> DictGet(content, "paragraph", <<>>)]

\* ' '.join(list).split(): the words of the texts of a list, in order
RECURSIVE Words(_)
Words(texts) ==
    IF texts = <<>> THEN <<>> ELSE Head(texts) \o Words(Tail(texts))

max_split_token == 3000

\* InstructionParser._split_text: a chunk is closed as soon as the lengths
\* of its words add up to max_split_token; what is left is the last chunk
RECURSIVE SplitFrom(_, _, _)
SplitFrom(words, current_chunk, current_length) ==
    IF words = <<>>
      THEN IF current_chunk # <<>> THEN <<current_chunk>> ELSE <<>>
      ELSE LET chunk == Append(current_chunk, Head(words))
               length == current_length + Head(words)
           IN  IF length >= max_split_token
                 THEN <<chunk>> \o SplitFrom(Tail(words), <<>>, 0)
                 ELSE SplitFrom(Tail(words), chunk, length)

split_text(text) == SplitFrom(text, <<>>, 0)

\* the text is_relevant assesses: the headings and what the key
\* 'paragraphs' holds
text_content(content) ==
    Words(DictGet(content, "headings", <<>>)
            \o DictGet(content, "paragraphs", <<>>))

\* The answers of the classifier, and an API error.
Answers == {"Yes", "No", " yes. ", ""}
ApiError == "OpenAIError"

\* answer.strip().lower()
Normal(answer) ==
    IF answer = "Yes" THEN "yes"
    ELSE IF answer = "No" THEN "no"
    ELSE IF answer = " yes. " THEN "yes."
    ELSE answer

\* 'yes' in answer
ContainsYes(answer) == answer \in {"yes", "yes."}

\* [urljoin(base_url, link['href']) for link in soup.find_all('a', href=True)]
ResolvedLinks(base_url, html) ==
    [i \in 1..Len(html.links) |-> urljoin(base_url, html.links[i])]

\* The scheduling loop without the netloc test.
SameDomain_Always(base_url, next_url) == TRUE

\* urlparse(base_url).netloc == urlparse(next_url).netloc
SameDomain(base_url, next_url) == base_url.host = next_url.host

\* The guard without its depth test, with >= for >, and with "and" for "or".
ShouldSkip_NoDepth(url, depth) == url \in visited_urls
ShouldSkip_Ge(url, depth) == depth >= max_depth \/ url \in visited_urls
ShouldSkip_And(url, depth) == depth > max_depth /\ url \in visited_urls

\* depth > max_depth or url in self.visited_urls
ShouldSkip(url, depth) == depth > max_depth \/ url \in visited_urls

\* A loop that makes its first attempt whatever max_retries is.
HasAttempt_AtLeastOne(attempt) == attempt = 0 \/ attempt < max_retries

\* range(self.max_retries) has another attempt
HasAttempt(attempt) == attempt < max_retries

\* shutdown(wait=False): the caller does not join the threads.
AllJoined_NoWait == TRUE

\* shutdown(wait=True): every worker thread has been joined
AllJoined == exited = MaxWorkers

\* bookkeeping of the responses the URLs have given
Count(c, u, r) ==
    IF r = 200 THEN [c EXCEPT !.ok = @ \cup {u}]
    ELSE IF r = 404 THEN [c EXCEPT !.nf = @ \cup {u}]
    ELSE [c EXCEPT !.err = @ \cup {u}]

Fetched == resp.ok \cup resp.nf \cup resp.err   \* a GET was issued for the URL
OkResp == resp.ok
AllOK == resp.nf = {} /\ resp.err = {}

\* a record of logger.warning / logger.error about a URL
Record(kind, u) == [kind |-> kind, url |-> u]

\* what _crawl_recursive logs on its way out: the 404 warning, the "Failed
\* to crawl" error; nothing when it returns normally or when an exception
\* leaves it
EndRecords(u, how) ==
    IF how = "notfound" THEN {Record("not_found", u)}
    ELSE IF how = "exhausted" THEN {Record("gave_up", u)}
    ELSE {}

\* _crawl_recursive returns or raises: the future is done, the thread idle
Finish(t, how) ==
    /\ Leave(t)
    /\ seedDone' = (seedDone \/ t.depth = 0)
    /\ finished' = finished \cup
          {[url |-> t.url, depth |-> t.depth, how |-> how]}
    /\ log' = log \cup EndRecords(t.url, how)

\* the future of task x holds an exception
Raised(x) ==
    [url |-> x.url, depth |-> x.depth, how |-> "rejected"] \in finished

\* --------------------------------------------------------------------- Init
Init ==
    /\ site \in Sites
    /\ max_retries \in 0..MaxRetriesArg
    /\ visited_urls = {}
    /\ shutdown = FALSE
    /\ queue = <<>>
    /\ running = EmptyBag
    /\ exited = 0
    /\ mainpc = "init"
    /\ max_depth = 0
    /\ pages = <<>>
    /\ seedDone = FALSE
    /\ result = <<>>
    /\ calls = 0
    /\ fetchers = [u \in Urls |-> 0]
    /\ resp = [ok |-> {}, nf |-> {}, err |-> {}]
    /\ finished = {}
    /\ log = {}
    /\ spc = "start"
    /\ keywords = ""
    /\ items = <<>>
    /\ pos = 0
    /\ chunks = <<>>
    /\ ci = 0
    /\ relevance = FALSE
    /\ documents = <<>>
    /\ verdicts = {}
    /\ answers = {}
    /\ output = "none"

\* ------------------------------------------------------- Crawler.crawl steps
\* crawl(base_url, max_depth): pages = {} and the seed submission.  submit
\* raises RuntimeError once the executor has been shut down.
Crawl ==
    /\ mainpc \in {"init", "returned", "raised"}
    /\ calls < MaxCalls
    /\ calls' = calls + 1
    /\ pages' = <<>>
    /\ \E md \in 0..MaxDepthArg : max_depth' = md
    /\ IF shutdown
         THEN /\ mainpc' = "raised"
              /\ UNCHANGED <<queue, seedDone>>
         ELSE /\ mainpc' = "wait"
              /\ queue' = Append(queue, Task(A, 0))
              /\ seedDone' = FALSE
    /\ UNCHANGED <<svars, site, max_retries, visited_urls, shutdown, running, exited,
                   result, hist>>

\* for future in as_completed(future_to_url): the only future is the seed's;
\* an exception of future.result() is caught and logged.
AsCompleted ==
    /\ mainpc = "wait"
    /\ seedDone
    /\ mainpc' = "shutdown"
    /\ log' = IF Raised(Task(A, 0))
                THEN log \cup {Record("error_processing", A)}
                ELSE log
    /\ UNCHANGED <<svars, site, max_retries, visited_urls, shutdown, queue, running,
                   exited, max_depth, pages, seedDone, result, calls,
                   fetchers, resp, finished>>

\* self.executor.shutdown(wait=True), first half: flag and wake-up
Shutdown ==
    /\ mainpc = "shutdown"
    /\ shutdown' = TRUE
    /\ queue' = Append(queue, Sentinel)
    /\ mainpc' = "join"
    /\ UNCHANGED <<svars, site, max_retries, visited_urls, running, exited,
                   max_depth, pages, seedDone, result, calls, hist>>

\* A return that keeps only the pages of tasks that returned normally.
Return_OnlyCompleted ==
    /\ mainpc = "join"
    /\ AllJoined
    /\ mainpc' = "returned"
    /\ result' = [u \in {v \in DOMAIN pages :
                              \E f \in finished : f.url = v /\ f.how = "ok"}
                     |-> pages[u]]
    /\ UNCHANGED <<svars, site, max_retries, visited_urls, shutdown, queue, running,
                   exited, max_depth, pages, seedDone, calls, hist>>

\* shutdown(wait=True), second half (the joins), then return pages
Return ==
    /\ mainpc = "join"
    /\ AllJoined
    /\ mainpc' = "returned"
    /\ result' = pages
    /\ UNCHANGED <<svars, site, max_retries, visited_urls, shutdown, queue, running,
                   exited, max_depth, pages, seedDone, calls, hist>>

\* ------------------------------------------------------------ worker steps
\* _worker: an idle thread's work_queue.get() returns a work item
Dequeue ==
    /\ NumIdle > 0
    /\ queue # <<>>
    /\ Head(queue) # Sentinel
    /\ running' = running (+) SetToBag({Thread(Head(queue))})
    /\ queue' = Tail(queue)
    /\ UNCHANGED <<svars, site, max_retries, visited_urls, shutdown, exited, mainpc,
                   max_depth, pages, seedDone, result, calls, hist>>

\* _worker: work_queue.get() returns None and the executor is shut down:
\* the thread passes the None on and exits
Exit ==
    /\ NumIdle > 0
    /\ queue # <<>>
    /\ Head(queue) = Sentinel
    /\ shutdown
    /\ exited' = exited + 1
    /\ queue' = Append(Tail(queue), Sentinel)
    /\ UNCHANGED <<svars, site, max_retries, visited_urls, shutdown, running, mainpc,
                   max_depth, pages, seedDone, result, calls, hist>>

\* if depth > max_depth or url in self.visited_urls: return
Check(t) ==
    /\ t.pc = "check"
    /\ IF ShouldSkip(t.url, t.depth)
         THEN Finish(t, "skipped")
         ELSE /\ Move(t, [t EXCEPT !.pc = "add"])
              /\ UNCHANGED <<seedDone, finished, log>>
    /\ UNCHANGED <<svars, site, max_retries, visited_urls, shutdown, queue, exited,
                   mainpc, max_depth, pages, result, calls, fetchers, resp>>

\* The step to the retry loop with the insert left out.
Add_NoInsert(t) ==
    /\ t.pc = "add"
    /\ Move(t, [t EXCEPT !.pc = "loop"])
    /\ UNCHANGED <<svars, site, max_retries, visited_urls, shutdown, queue, exited, mainpc,
                   max_depth, pages, seedDone, result, calls, hist>>

\* self.visited_urls.add(url)
Add(t) ==
    /\ t.pc = "add"
    /\ visited_urls' = visited_urls \cup {t.url}
    /\ Move(t, [t EXCEPT !.pc = "loop"])
    /\ UNCHANGED <<svars, site, max_retries, shutdown, queue, exited, mainpc,
                   max_depth, pages, seedDone, result, calls, hist>>

\* one iteration of the retry loop up to the response: requests.get, the 404
\* test and raise_for_status
Get(t) ==
    /\ t.pc = "loop"
    /\ HasAttempt(t.attempt)
    /\ fetchers' = [fetchers EXCEPT ![t.url] =
                        IF t.attempt = 0 THEN @ + 1 ELSE @]
    /\ \E r \in Responses :
         /\ resp' = Count(resp, t.url, r)
         /\ CASE Outcome(r) = "retry" ->
                   /\ Move(t, [t EXCEPT !.pc = "sleep"])
                   /\ log' = log \cup {Record("attempt_failed", t.url)}
                   /\ UNCHANGED <<seedDone, finished>>
              [] Outcome(r) = "notfound" ->
                   Finish(t, "notfound")
              [] Outcome(r) = "ok" ->
                   /\ Move(t, [t EXCEPT !.pc = "store"])
                   /\ UNCHANGED <<seedDone, finished, log>>
    /\ UNCHANGED <<svars, site, max_retries, visited_urls, shutdown, queue, exited,
                   mainpc, max_depth, pages, result, calls>>

\* The except clause of a loop whose attempt counter stays at 1.
Sleep_NoAdvance(t) ==
    /\ t.pc = "sleep"
    /\ Move(t, [t EXCEPT !.pc = "loop", !.attempt = 1])
    /\ UNCHANGED <<svars, site, max_retries, visited_urls, shutdown, queue, exited,
                   mainpc, max_depth, pages, seedDone, result, calls, hist>>

\* the except clause: log, time.sleep(1), next attempt
Sleep(t) ==
    /\ t.pc = "sleep"
    /\ Move(t, [t EXCEPT !.pc = "loop", !.attempt = @ + 1])
    /\ UNCHANGED <<svars, site, max_retries, visited_urls, shutdown, queue, exited,
                   mainpc, max_depth, pages, seedDone, result, calls, hist>>

\* Giving up with the URL taken out of the visited set again.
GiveUp_Forget(t) ==
    /\ t.pc = "loop"
    /\ ~HasAttempt(t.attempt)
    /\ Finish(t, "exhausted")
    /\ visited_urls' = visited_urls \ {t.url}
    /\ UNCHANGED <<svars, site, max_retries, shutdown, queue, exited,
                   mainpc, max_depth, pages, result, calls, fetchers, resp>>

\* the loop ran out: "Failed to crawl ... after max_retries attempts"
GiveUp(t) ==
    /\ t.pc = "loop"
    /\ ~HasAttempt(t.attempt)
    /\ Finish(t, "exhausted")
    /\ UNCHANGED <<svars, site, max_retries, visited_urls, shutdown, queue, exited,
                   mainpc, max_depth, pages, result, calls, fetchers, resp>>

\* The successful branch with the store left out.
Store_NoWrite(t) ==
    /\ t.pc = "store"
    /\ Move(t, [t EXCEPT !.pc = "submit", !.idx = 1])
    /\ UNCHANGED <<svars, site, max_retries, visited_urls, shutdown, queue, exited,
                   mainpc, max_depth, pages, seedDone, result, calls, hist>>

\* pages[url] = html
Store(t) ==
    /\ t.pc = "store"
    /\ pages' = (t.url :> Html(t.url)) @@ pages
    /\ Move(t, [t EXCEPT !.pc = "submit", !.idx = 1])
    /\ UNCHANGED <<svars, site, max_retries, visited_urls, shutdown, queue, exited,
                   mainpc, max_depth, seedDone, result, calls, hist>>

\* one iteration of "for next_url in links", or the return after the loop.
\* executor.submit raises RuntimeError after shutdown; it is not a
\* RequestException, so it ends the task.
Submit(t) ==
    /\ t.pc = "submit"
    /\ LET links == ResolvedLinks(A, Html(t.url))
       IN IF t.idx > Len(links)
            THEN /\ Finish(t, "ok")
                 /\ UNCHANGED queue
            ELSE IF ~SameDomain(A, links[t.idx])
              THEN /\ Move(t, [t EXCEPT !.idx = @ + 1])
                   /\ UNCHANGED <<queue, seedDone, finished, log>>
              ELSE IF shutdown
                THEN /\ Finish(t, "rejected")
                     /\ UNCHANGED queue
                ELSE /\ queue' = Append(queue, Task(links[t.idx], t.depth + 1))
                     /\ Move(t, [t EXCEPT !.idx = @ + 1])
                     /\ UNCHANGED <<seedDone, finished, log>>
    /\ UNCHANGED <<svars, site, max_retries, visited_urls, shutdown, exited, mainpc,
                   max_depth, pages, result, calls, fetchers, resp>>

Next ==
    \/ Crawl
    \/ AsCompleted
    \/ Shutdown
    \/ Return
    \/ Dequeue
    \/ Exit
    \/ \E t \in Threads : Check(t)
    \/ \E t \in Threads : Add(t)
    \/ \E t \in Threads : Get(t)
    \/ \E t \in Threads : Sleep(t)
    \/ \E t \in Threads : GiveUp(t)
    \/ \E t \in Threads : Store(t)
    \/ \E t \in Threads : Submit(t)

Spec == Init /\ [][Next]_vars

\* ------------------------------------------------------ RufusClient.scrape
\* The page mappings crawl can hand to scrape: the stored URLs in the order
\* they were stored.
Stored == {A, B, D, E}
PageOrders ==
    {o \in UNION {[1..n -> Stored] : n \in 0..Cardinality(Stored)} :
        \A i, j \in 1..Len(o) : i # j => o[i] # o[j]}

\* keywords = self.parser.parse_instructions(instructions); "" on an API
\* error
ParseInstructions ==
    /\ spc = "start"
    /\ \E kw \in {"courses", ""} : keywords' = kw
    /\ spc' = "crawl"
    /\ UNCHANGED <<cvars, items, pos, chunks, ci, relevance, documents,
                   verdicts, answers, output>>

\* pages = self.crawler.crawl(url, max_depth=max_depth); on a Crawler that
\* has crawled before the call raises, which scrape logs and re-raises
ScrapeCrawl ==
    /\ spc = "crawl"
    /\ \/ /\ \E o \in PageOrders : items' = o
          /\ pos' = 1
          /\ documents' = <<>>
          /\ spc' = "page"
       \/ /\ spc' = "raised"
          /\ UNCHANGED <<items, pos, documents>>
    /\ UNCHANGED <<cvars, keywords, chunks, ci, relevance, verdicts, answers,
                   output>>

\* the page scrape is at, and its extracted content
page_url == items[pos]
content == extract_content(Html(page_url))

\* for page_url, html in pages.items(): extract_content, and is_relevant up
\* to its loop
NextPage ==
    /\ spc = "page"
    /\ pos <= Len(items)
    /\ chunks' = split_text(text_content(content))
    /\ ci' = 1
    /\ relevance' = FALSE
    /\ spc' = "ask"
    /\ UNCHANGED <<cvars, keywords, items, pos, documents, verdicts, answers,
                   output>>

\* One classifier call whose API error escapes is_relevant.
Ask_NoCatch ==
    /\ spc = "ask"
    /\ ci <= Len(chunks)
    /\ ~relevance
    /\ \E a \in Answers \cup {ApiError} :
         IF a = ApiError
           THEN /\ answers' = answers \cup
                        {[url |-> page_url, chunk |-> ci, kind |-> "error"]}
                /\ spc' = "raised"
                /\ UNCHANGED <<ci, relevance>>
           ELSE /\ answers' = answers \cup
                        {[url |-> page_url, chunk |-> ci,
                          kind |-> IF ContainsYes(Normal(a))
                                     THEN "yes" ELSE "other"]}
                /\ relevance' = ContainsYes(Normal(a))
                /\ ci' = IF ContainsYes(Normal(a)) THEN ci ELSE ci + 1
                /\ UNCHANGED spc
    /\ UNCHANGED <<cvars, keywords, items, pos, chunks, documents, verdicts,
                   output>>

\* one turn of "for chunk in chunks": the classifier call; 'yes' in the
\* answer sets relevance and breaks, an openai.OpenAIError is logged and
\* the loop goes on
Ask ==
    /\ spc = "ask"
    /\ ci <= Len(chunks)
    /\ ~relevance
    /\ \E a \in Answers \cup {ApiError} :
         IF a = ApiError
           THEN /\ answers' = answers \cup
                        {[url |-> page_url, chunk |-> ci, kind |-> "error"]}
                /\ ci' = ci + 1
                /\ UNCHANGED relevance
           ELSE /\ answers' = answers \cup
                        {[url |-> page_url, chunk |-> ci,
                          kind |-> IF ContainsYes(Normal(a))
                                     THEN "yes" ELSE "other"]}
                /\ relevance' = ContainsYes(Normal(a))
                /\ ci' = IF ContainsYes(Normal(a)) THEN ci ELSE ci + 1
    /\ UNCHANGED <<cvars, spc, keywords, items, pos, chunks, documents,
                   verdicts, output>>

\* return relevance, and the if/else of scrape: append the document or skip
Decide ==
    /\ spc = "ask"
    /\ ci > Len(chunks) \/ relevance
    /\ verdicts' = verdicts \cup {[url |-> page_url, relevant |-> relevance]}
    /\ documents' = IF relevance
                      THEN Append(documents, generate_doc(page_url, content))
                      ELSE documents
    /\ pos' = pos + 1
    /\ spc' = "page"
    /\ UNCHANGED <<cvars, keywords, items, chunks, ci, relevance, answers,
                   output>>

\* after the loop: the documents are written to output_filename or returned
Deliver ==
    /\ spc = "page"
    /\ pos > Len(items)
    /\ \E o \in {"file", "returned"} : output' = o
    /\ spc' = "done"
    /\ UNCHANGED <<cvars, keywords, items, pos, chunks, ci, relevance,
                   documents, verdicts, answers>>

ScrapeNext ==
    \/ ParseInstructions
    \/ ScrapeCrawl
    \/ NextPage
    \/ Ask
    \/ Decide
    \/ Deliver

ScrapeSpec == Init /\ [][ScrapeNext]_vars

\* what runs without the caller: the main thread inside crawl and the pool's
\* threads; every GET returns or times out (timeout=self.timeout)
Run ==
    \/ AsCompleted
    \/ Shutdown
    \/ Return
    \/ Dequeue
    \/ Exit
    \/ \E t \in Threads : \/ Check(t)
                          \/ Add(t)
                          \/ Get(t)
                          \/ Sleep(t)
                          \/ GiveUp(t)
                          \/ Store(t)
                          \/ Submit(t)

\* the diamond-shaped site is run with one attempt per URL at most; the
\* retry loop is run to its full length on the cyclic site
LiveInit == Init /\ (site = SiteGraph => max_retries <= 1)

\* threads that can take a step are scheduled; whether the caller calls
\* crawl again is left open
LiveSpec == LiveInit /\ [][Next]_vars /\ WF_vars(Run)

\* ---------------------------------------------------------------- analysis
\* Same-host URLs within k hops of the seed, links resolved as the code does.
RECURSIVE ReachFrom(_, _)
ReachFrom(s, k) ==
    IF k = 0 THEN {A}
    ELSE LET prev == ReachFrom(s, k - 1)
         IN prev \cup
            {l \in Urls : /\ SameDomain(A, l)
                          /\ \E u \in prev : \E i \in 1..Len(s[u]) :
                               l = urljoin(A, s[u][i])}

\* the same for each site and each depth a crawl can be given
ReachTable == [s \in Sites |-> [d \in 0..MaxDepthArg |-> ReachFrom(s, d)]]
ReachSet(k) == ReachTable[site][k]

Ended(u, how) == \E f \in finished : f.url = u /\ f.how = how

\* no work item is queued and no worker is inside a task
Drained ==
    /\ \A i \in 1..Len(queue) : queue[i] = Sentinel
    /\ running = EmptyBag

\* the step ends the task of the thread in state t
StepsOut(t) == running' = running (-) SetToBag({t})

\* a thread is past the first GET of a task for u
Fetching(u) ==
    \E t \in Threads :
        /\ t.url = u
        /\ t.pc \in {"sleep", "store", "submit"} \/ (t.pc = "loop" /\ t.attempt > 0)

\* C1: within one crawl at most one task issues GET requests for a URL.
C1_OneFetcherPerUrl == \A u \in Urls : fetchers[u] <= 1

\* C2: when every GET succeeds, crawl returns exactly the URLs within
\* max_depth same-host hops of the seed.
C2_ResultIsReachSet ==
    (mainpc = "returned" /\ AllOK /\ A \in OkResp)
        => DOMAIN result = ReachSet(max_depth)

\* C3: when crawl has returned no task is queued or running, and the
\* returned mapping and the visited set do not change afterwards.
C3_ReturnsAfterDrain ==
    /\ [](mainpc = "returned" => Drained /\ result = pages)
    /\ [][mainpc = "returned" /\ mainpc' = "returned"
            => pages' = pages /\ visited_urls' = visited_urls]_vars

C3_Witness ==
    /\ mainpc = "returned"
    /\ \E f \in finished : f.depth = 2 /\ f.how = "ok"
    /\ Cardinality(DOMAIN result) >= 4

\* C4: crawl(seed, 0) with a successful seed GET returns {seed: body(seed)};
\* no GET is issued for another URL and none is added to the visited set.
C4_DepthZeroOnlySeed ==
    (calls = 1 /\ max_depth = 0) =>
        /\ \A u \in Urls \ {A} : u \notin Fetched /\ u \notin visited_urls
        /\ (mainpc = "returned" /\ A \in OkResp) => result = (A :> Html(A))

C4_Witness ==
    /\ mainpc = "returned"
    /\ max_depth = 0
    /\ result = (A :> Html(A))
    /\ Len(site[A]) > 0
    /\ [url |-> B, depth |-> 1, how |-> "skipped"] \in finished

\* C5: every key of the page store and of the result, and every URL a GET
\* was issued to, has the seed's network location.
C5_NoOutOfDomain ==
    /\ \A u \in DOMAIN pages \cup DOMAIN result : u.host = A.host
    /\ \A u \in Fetched : u.host = A.host

C5_Witness ==
    /\ \E t \in Threads :
         /\ t.pc = "submit"
         /\ t.url = A
         /\ t.idx > 1
         /\ urljoin(A, site[A][t.idx - 1]).host # A.host
    /\ C \notin Fetched

\* C6: a URL that answered 200 is in the result; a URL on which a task ran
\* out of retries is absent, and the max_retries GETs of that task are the
\* only GETs issued for it (no second task fetched it).
C6_BoundedRetry ==
    mainpc = "returned" =>
        \A u \in Urls :
            /\ u \in OkResp => u \in DOMAIN result
            /\ Ended(u, "exhausted")
                  => fetchers[u] <= 1 /\ u \notin DOMAIN result

\* C7: a 404 is terminal for the task that receives it.  Every 404 ended a
\* task; when one task fetched the URL, no thread is left issuing GETs for
\* it, storing it or scheduling its links, and it is not in the page store;
\* and the step in which a thread leaves the retry loop with attempts left
\* (the 404) stores nothing and schedules nothing.
C7_NotFoundIsTerminal ==
    /\ [](\A u \in resp.nf :
            /\ Ended(u, "notfound")
            /\ fetchers[u] = 1 =>
                  /\ u \notin OkResp
                  /\ u \notin DOMAIN pages
                  /\ ~Fetching(u))
    /\ [][\A t \in Threads :
            (t.pc = "loop" /\ HasAttempt(t.attempt) /\ StepsOut(t))
                => /\ t.url \in resp'.nf
                   /\ pages' = pages
                   /\ queue' = queue]_vars

C7_Witness ==
    /\ mainpc = "returned"
    /\ Ended(B, "notfound")
    /\ B \in resp.err
    /\ fetchers[B] = 1
    /\ B \notin DOMAIN result
    /\ E \notin visited_urls

\* C8: with max_depth = 1 and every GET succeeding the result is the seed
\* and its same-host links: {A, B} when A links to B and to off-host C.
C8_DepthOneSameHost ==
    (mainpc = "returned" /\ max_depth = 1 /\ AllOK /\ A \in OkResp) =>
        /\ DOMAIN result = ReachSet(1)
        /\ site = SiteAB => DOMAIN result = {A, B}
        /\ C \notin Fetched

C8_Witness ==
    /\ mainpc = "returned"
    /\ max_depth = 1
    /\ site = SiteAB
    /\ AllOK
    /\ DOMAIN result = {A, B}
    /\ fetchers[B] = 1

\* C9: the first crawl on a Crawler never raises, and when it returns every
\* URL that answered 200 is stored and nothing else is, whichever other
\* tasks ended in 404 or ran out of retries.
C9_FailureIsolation ==
    /\ calls <= 1 => mainpc # "raised"
    /\ mainpc = "returned" => DOMAIN result = OkResp

C9_Witness ==
    /\ mainpc = "returned"
    /\ site = SiteGraph
    /\ max_retries > 0
    /\ Ended(D, "notfound")
    /\ Ended(E, "exhausted")
    /\ DOMAIN result = {A, B}

\* C10: no task deeper than max_depth gets past the guard, so every URL that
\* is visited, fetched or stored lies within max_depth hops of the seed.
C10_DepthBound ==
    /\ \A t \in Threads : t.pc # "check" => t.depth <= max_depth
    /\ calls = 1 =>
          visited_urls \cup DOMAIN pages \cup Fetched
             \subseteq ReachSet(max_depth)

C10_Witness ==
    /\ calls = 1
    /\ \E f \in finished : f.depth > max_depth /\ f.how = "skipped"
    /\ \E f \in finished : f.depth = max_depth /\ f.how = "ok"

\* ------------------------------------------------- analysis, scheduling
\* the tasks the pool holds or has held: queued, running and finished
QueuedTasks == {queue[i] : i \in 1..Len(queue)} \ {Sentinel}
AllTasks ==
    QueuedTasks \cup {Task(t.url, t.depth) : t \in Threads}
                \cup {Task(f.url, f.depth) : f \in finished}

\* the step is an executor.submit of task x by a worker
Submits(x) == x.depth > 0 /\ queue' = Append(queue, x)

\* the in-scope URLs page u links to, resolved as the code does / against
\* the page itself
LinksFrom(s, u) ==
    {l \in Urls : /\ SameDomain(A, l)
                  /\ \E i \in 1..Len(s[u]) : l = urljoin(A, s[u][i])}
LinksTable == [s \in Sites |-> [u \in Urls |-> LinksFrom(s, u)]]
LinksOf(u) == LinksTable[site][u]
LinksOnPage(u) ==
    {l \in Urls : /\ SameDomain(A, l)
                  /\ \E i \in 1..Len(site[u]) : l = urljoin(u, site[u][i])}

ChildTasks == {Task(u, d) : u \in Urls, d \in 1..(MaxDepthArg + 1)}

\* C11: a second crawl call on the same Crawler is served like the first:
\* its seed task is accepted by the pool and the call does not raise.
C11_SecondCrawlWorks == calls >= 2 => mainpc # "raised"

\* C14: no submission by a worker is rejected because the pool is shutting
\* down.
C14_NoRejectedSubmit == \A f \in finished : f.how # "rejected"

C16_ChildAfterParentStored ==
    calls <= 1 =>
        \A x \in AllTasks :
            x.depth > 0 =>
                \E u \in DOMAIN pages \cap OkResp : x.url \in LinksOf(u)

C16_Witness ==
    /\ mainpc = "returned"
    /\ site = SiteGraph
    /\ max_depth = 2
    /\ max_retries > 0
    /\ Ended(B, "exhausted")
    /\ Ended(D, "ok")
    /\ \A x \in AllTasks : x.url # E

\* C17: a link is resolved against the URL of the page it was found on:
\* every child task is for a URL some stored page links to, read relative
\* to that page.
C17_ResolvedAgainstPage ==
    calls <= 1 =>
        \A x \in AllTasks :
            x.depth > 0 => \E u \in DOMAIN pages : x.url \in LinksOnPage(u)

\* C18: a task waits only between two attempts: after a wait there is
\* another GET.
C18_SleepOnlyBetweenAttempts ==
    \A t \in Threads : t.pc = "sleep" => HasAttempt(t.attempt + 1)

\* C19: every task that ended in a 404, in exhausted retries or in an
\* exception has a record of that failure in the log once the crawl has
\* returned.
C19_FailuresLogged ==
    mainpc = "returned" =>
        \A f \in finished :
            /\ f.how = "notfound" => Record("not_found", f.url) \in log
            /\ f.how = "exhausted" => Record("gave_up", f.url) \in log
            /\ f.how = "rejected" => Record("error_processing", f.url) \in log

\* C12: under fair scheduling every crawl call that is waiting on its pool
\* returns, whatever the link graph and the responses.
C12_CrawlReturns == (mainpc \in {"wait", "shutdown", "join"}) ~> (mainpc = "returned")

C12_Witness ==
    /\ mainpc = "returned"
    /\ site = SiteAB
    /\ max_depth = 2
    /\ [url |-> A, depth |-> 2, how |-> "skipped"] \in finished
    /\ [url |-> E, depth |-> 3, how |-> "skipped"] \in finished
    /\ resp.err # {}

\* ----------------------------------------------------- analysis, scrape
HasDocument(u) == \E d \in 1..Len(documents) : documents[d].url = u
Processed == {items[i] : i \in 1..(IF pos > Len(items) THEN Len(items) ELSE pos - 1)}

\* C13: a processed page has a document exactly when is_relevant returned
\* true for it, no other page has one, and each document carries the URL,
\* the stripped title and the paragraphs of its page.
C13_DocumentIffRelevant ==
    /\ \A u \in Urls :
          HasDocument(u) <=>
             (u \in Processed /\ [url |-> u, relevant |-> TRUE] \in verdicts)
    /\ \A d \in 1..Len(documents) :
          LET u == documents[d].url
          IN  documents[d] =
                 [url |-> u,
                  title |-> IF PageTitle[u].present
                              THEN Strip(PageTitle[u].string) ELSE "",
                  content |-> PageParagraphs[u]]

C13_Witness ==
    /\ spc = "done"
    /\ \E d \in 1..Len(documents) :
          documents[d] = [url |-> A, title |-> "Home", content |-> << <<7>> >>]
    /\ [url |-> B, relevant |-> FALSE] \in verdicts
    /\ ~HasDocument(B)

\* C20: an API error of the classifier does not end scrape; a page none of
\* whose classifier calls answered yes gets the verdict false and no
\* document; and a finished scrape has a verdict for every page.
C20_ClassifierErrorsSkipPage ==
    /\ spc = "raised" => \A a \in answers : a.kind # "error"
    /\ \A v \in verdicts :
          (\A a \in answers : a.url = v.url => a.kind # "yes")
             => ~v.relevant /\ ~HasDocument(v.url)
    /\ spc = "done" =>
          \A i \in 1..Len(items) : \E v \in verdicts : v.url = items[i]

C20_Witness ==
    /\ spc = "done"
    /\ items = <<A, B>>
    /\ [url |-> A, chunk |-> 1, kind |-> "error"] \in answers
    /\ [url |-> A, chunk |-> 2, kind |-> "error"] \in answers
    /\ [url |-> A, relevant |-> FALSE] \in verdicts
    /\ HasDocument(B)

\* C21: the text is_relevant assesses holds the page's headings and its
\* paragraphs, and a processed page with paragraphs had at least one
\* classifier call.
C21_ParagraphsAssessed ==
    /\ spc = "ask" =>
          Words(chunks) = Words(PageHeadings[page_url] \o PageParagraphs[page_url])
    /\ \A v \in verdicts :
          PageParagraphs[v.url] # <<>> => \E a \in answers : a.url = v.url

\* C22: every URL that answered 200 to some task is a key of the mapping
\* crawl returns, with the body of the page, also when a submit of that
\* page's task was rejected.
C22_FetchedPagesReturned ==
    mainpc = "returned" =>
        \A u \in OkResp : u \in DOMAIN result /\ result[u] = Html(u)

C22_Witness ==
    /\ mainpc = "returned"
    /\ Ended(B, "rejected")
    /\ B \in OkResp
    /\ B \in DOMAIN result
    /\ Cardinality(DOMAIN result) = 2

\* C23: the keys of the page store are visited URLs; the visited set only
\* grows, and so does the page store during a crawl call.
C23_StoredAreVisited ==
    /\ [](DOMAIN pages \subseteq visited_urls)
    /\ [][/\ visited_urls \subseteq visited_urls'
          /\ calls' = calls => DOMAIN pages \subseteq DOMAIN pages']_vars

C23_Witness ==
    /\ Cardinality(DOMAIN pages) >= 2
    /\ \E u \in visited_urls : u \notin DOMAIN pages /\ Ended(u, "notfound")
    /\ \E t \in Threads : t.pc = "store"

\* a task for u ended in a 404 or in exhausted retries
Failed(u) == Ended(u, "notfound") \/ Ended(u, "exhausted")

\* C24: a URL whose task ended in a 404 or in exhausted retries is in the
\* visited set, and a task for it that comes to the guard afterwards does
\* not go on to the insert and the GETs.
C24_NoSecondChance ==
    /\ [](\A u \in Urls : Failed(u) => u \in visited_urls)
    /\ [][\A t \in Threads :
            t.pc = "check" /\ Failed(t.url)
               => running' # (running (-) SetToBag({t}))
                                (+) SetToBag({[t EXCEPT !.pc = "add"]})]_vars

C24_Witness ==
    /\ site = SiteGraph
    /\ max_retries > 0
    /\ Ended(D, "exhausted")
    /\ [url |-> D, depth |-> 2, how |-> "skipped"] \in finished
    /\ fetchers[D] = 1
    /\ B \in DOMAIN pages

====
